---- MODULE Spec2Model ----
(***************************************************************************)
(* Role-permission and audit-trail model of graphql_todos_backend.         *)
(*                                                                         *)
(* Three specifications share this module:                                 *)
(*   Spec      the User entity: construction, flush (INSERT), can_manage,  *)
(*             role assignment, soft_delete, restore and hard deletion of  *)
(*             rows under the declared foreign-key actions;                *)
(*   SpecPure  the two can_manage predicates applied to arguments drawn    *)
(*             from every role and every user record;                      *)
(*   SpecTx    the role-change protocol run by concurrent request sessions *)
(*             against one subject row.                                    *)
(***************************************************************************)
EXTENDS Integers, Sequences, FiniteSets

VARIABLES users, ret,
          dbRole, dbHistory, sess, lockOwner, started,
          settings

entityVars == <<users, ret>>
txVars == <<dbRole, dbHistory, sess, lockOwner, started>>
vars == <<users, ret, dbRole, dbHistory, sess, lockOwner, started, settings>>

(***************************************************************************)
(* Bounds of the model.                                                    *)
(***************************************************************************)
\* user objects constructed in one behaviour
MaxUsers == 2
\* request sessions open at the same time
NumSessions == 2
\* role-change requests served in one behaviour
MaxRequests == 3
\* rows of user_role_history written in one behaviour of SpecFk
MaxHistory == 2

Handles == 1..MaxUsers
Sessions == 1..NumSessions

(***************************************************************************)
(* UserRole(IntEnum), user.py 27-69.                                       *)
(***************************************************************************)
USER == 1
ADMIN == 2
SUPERADMIN == 3
UserRole == {USER, ADMIN, SUPERADMIN}

\* Python's None for Optional[int] / Optional[datetime] columns; real ids
\* start at 1.
None == 0

\* datetime.now(timezone.utc): some instant, never None.  No operation
\* compares two instants, so one value stands for all of them.
Now == 1

UserRole_can_manage_nonstrict(self, other) == self >= other

\* UserRole.can_manage: return self.value > other.value
UserRole_can_manage(self, other) == self > other

(***************************************************************************)
(* User, user.py 77-310, with the columns of TimestampMixin / BaseModel.   *)
(* state is the ORM object state: "absent" (not constructed yet),          *)
(* "transient" (constructed, id still None), "persistent" (row inserted,   *)
(* id set) or "deleted" (row deleted, object dropped).                     *)
(***************************************************************************)
NoUser ==
    [state |-> "absent", id |-> None, role |-> USER, is_active |-> FALSE,
     deleted_at |-> None, deleted_by_id |-> None, created_by_id |-> None]

\* User(role=...): is_active has default=True and created_by_id
\* default=None; id, deleted_at and deleted_by_id are None until the row is
\* inserted.
User_new(role) ==
    [state |-> "transient", id |-> None, role |-> role, is_active |-> TRUE,
     deleted_at |-> None, deleted_by_id |-> None, created_by_id |-> None]

User_can_manage_rank_only(self, other_user) ==
    UserRole_can_manage_nonstrict(self.role, other_user.role)

\* User.can_manage: ids are compared with ==, so None == None is equal.
User_can_manage(self, other_user) ==
    IF self.id = other_user.id
    THEN FALSE
    ELSE UserRole_can_manage(self.role, other_user.role)

User_soft_delete_unguarded(self, deleted_by, now) ==
    [raised |-> "",
     self |-> [self EXCEPT !.deleted_at = now,
                           !.deleted_by_id = deleted_by.id,
                           !.is_active = FALSE]]

User_soft_delete_late_guard(self, deleted_by, now) ==
    [raised |-> IF User_can_manage(deleted_by, self) THEN "" ELSE "ValueError",
     self |-> [self EXCEPT !.deleted_at = now,
                           !.deleted_by_id = deleted_by.id,
                           !.is_active = FALSE]]

User_soft_delete_keeps_active(self, deleted_by, now) ==
    IF ~User_can_manage(deleted_by, self)
    THEN [raised |-> "ValueError", self |-> self]
    ELSE [raised |-> "",
          self |-> [self EXCEPT !.deleted_at = now,
                                !.deleted_by_id = deleted_by.id]]

\* User.soft_delete: the outcome (exception raised, or "") and self afterwards.
User_soft_delete(self, deleted_by, now) ==
    IF ~User_can_manage(deleted_by, self)
    THEN [raised |-> "ValueError", self |-> self]
    ELSE [raised |-> "",
          self |-> [self EXCEPT !.deleted_at = now,
                                !.deleted_by_id = deleted_by.id,
                                !.is_active = FALSE]]

User_restore_reactivates(self) ==
    [self EXCEPT !.deleted_at = None, !.deleted_by_id = None, !.is_active = TRUE]

User_restore_keeps_deleter(self) ==
    [self EXCEPT !.deleted_at = None]

\* User.restore
User_restore(self) ==
    [self EXCEPT !.deleted_at = None, !.deleted_by_id = None]

\* object h is in use
Exists(h) == users[h].state \in {"transient", "persistent"}

\* ids of the rows of table users
RowIds == {users[h].id : h \in {x \in Handles : users[x].state = "persistent"}}

\* ForeignKey("users.id"): a reference is None or the id of a row
FkOk(ref) == ref = None \/ ref \in RowIds

\* ForeignKey("users.id", ondelete="SET NULL") applied to one row when the row
\* with primary key gone is deleted
OnDeleteSetNull(row, gone) ==
    [row EXCEPT !.deleted_by_id = IF @ = gone THEN None ELSE @,
                !.created_by_id = IF @ = gone THEN None ELSE @]

\* The last call that returned a value or raised: its name, its two
\* arguments where the specification draws them (else None), whether the two
\* users of the call were the same object, the exception it raised ("" for
\* none) and the boolean it returned.
Ret(op, a, b, same, raised, value) ==
    [op |-> op, a |-> a, b |-> b, same |-> same, raised |-> raised, value |-> value]

\* nothing returned, nothing raised
NoRet == Ret("", None, None, FALSE, "", FALSE)

(***************************************************************************)
(* Actions of Spec.                                                        *)
(***************************************************************************)
NewUser(h, role) ==
    /\ users[h].state = "absent"
    /\ users' = [users EXCEPT ![h] = User_new(role)]
    /\ ret' = NoRet
    /\ UNCHANGED txVars
    /\ UNCHANGED settings

\* the key the autoincrement column gives the row of object h: a fresh one
\* for every row, never handed out twice; the object's own index stands
\* for it
AutoIncrement(h) == h

\* session.add(user); flush: INSERT, the autoincrement key is assigned.  A
\* dangling foreign key makes the INSERT fail and the object stays transient.
Persist(h) ==
    /\ users[h].state = "transient"
    /\ IF FkOk(users[h].deleted_by_id) /\ FkOk(users[h].created_by_id)
       THEN /\ users' = [users EXCEPT ![h].state = "persistent",
                                      ![h].id = AutoIncrement(h)]
            /\ ret' = NoRet
       ELSE /\ ret' = Ret("flush", None, None, FALSE, "IntegrityError", FALSE)
            /\ UNCHANGED users
    /\ UNCHANGED txVars
    /\ UNCHANGED settings

CanManage(u, v) ==
    /\ Exists(u)
    /\ Exists(v)
    /\ ret' = Ret("can_manage", None, None, u = v, "",
                  User_can_manage(users[u], users[v]))
    /\ UNCHANGED users
    /\ UNCHANGED txVars
    /\ UNCHANGED settings

\* target.soft_delete(actor)
SoftDelete(t, a) ==
    /\ Exists(t)
    /\ Exists(a)
    /\ LET r == User_soft_delete(users[t], users[a], Now)
       IN /\ users' = [users EXCEPT ![t] = r.self]
          /\ ret' = Ret("soft_delete", None, None, t = a, r.raised, FALSE)
    /\ UNCHANGED txVars
    /\ UNCHANGED settings

\* user.role = new_role, the assignment of the role-change protocol
AssignRole(h, new_role) ==
    /\ Exists(h)
    /\ users' = [users EXCEPT ![h].role = new_role]
    /\ ret' = NoRet
    /\ UNCHANGED txVars
    /\ UNCHANGED settings

Restore(h) ==
    /\ Exists(h)
    /\ users' = [users EXCEPT ![h] = User_restore(users[h])]
    /\ ret' = NoRet
    /\ UNCHANGED txVars
    /\ UNCHANGED settings

\* user_role_history.user_id, ondelete="CASCADE": the rows that stay when the
\* users row with primary key gone is deleted
OnDeleteCascade(history, gone) ==
    SelectSeq(history, LAMBDA row : row.user_id # gone)

\* user_role_history.changed_by_id, ondelete="SET NULL" on a column declared
\* nullable=False: the rows whose reference the delete would have to set to
\* NULL, which the column does not accept
ChangedByBlocks(history, gone) ==
    {i \in DOMAIN history : history[i].changed_by_id = gone}

\* DELETE FROM users WHERE id = users[h].id.  The history rows of the subject
\* go with it, and every other users row that referenced it has the
\* reference set to NULL; a remaining history row that names the user in
\* changed_by_id cannot take NULL, the statement fails and changes nothing.
\* Objects not yet inserted are not rows and keep what they hold.
HardDelete(h) ==
    /\ users[h].state = "persistent"
    /\ LET gone == users[h].id
           kept == OnDeleteCascade(dbHistory, gone)
       IN  IF ChangedByBlocks(kept, gone) = {}
           THEN /\ users' = [x \in Handles |->
                               IF x = h THEN [NoUser EXCEPT !.state = "deleted"]
                               ELSE IF users[x].state = "persistent"
                                    THEN OnDeleteSetNull(users[x], gone)
                                    ELSE users[x]]
                /\ dbHistory' = kept
                /\ ret' = NoRet
           ELSE /\ ret' = Ret("DELETE", h, None, FALSE, "IntegrityError", FALSE)
                /\ UNCHANGED <<users, dbHistory>>
    /\ UNCHANGED <<dbRole, sess, lockOwner, started>>
    /\ UNCHANGED settings

\* User(role=role, created_by_id=users[cb].id): an account made by another
\* user
NewUserCreatedBy(h, role, cb) ==
    /\ users[h].state = "absent"
    /\ users[cb].state = "persistent"
    /\ users' = [users EXCEPT ![h] =
                    [User_new(role) EXCEPT !.created_by_id = users[cb].id]]
    /\ ret' = NoRet
    /\ UNCHANGED txVars
    /\ UNCHANGED settings

InitEntity ==
    /\ users = [h \in Handles |-> NoUser]
    /\ ret = NoRet

(***************************************************************************)
(* The role-change protocol, user_role_history.py 151-159, run by request  *)
(* sessions of database.py against one subject row.                        *)
(*   dbRole, dbHistory  what is committed: the subject's role column and   *)
(*                      the rows of user_role_history, in commit order     *)
(*   sess[s]            the session of request s: where it is, its copy of *)
(*                      the subject, the role it loaded, the record it     *)
(*                      built, and what it has flushed but not committed   *)
(*   lockOwner          the session whose UPDATE holds the row lock        *)
(*   started            requests begun so far                              *)
(***************************************************************************)

\* a factory that reads the role after the assignment instead of before it
UserRoleHistory_create_for_role_change_after_assign(user, new_role, changed_by, reason) ==
    [user_id |-> user.id, old_role |-> new_role, new_role |-> new_role,
     changed_by_id |-> changed_by.id, reason |-> reason]

\* UserRoleHistory.create_for_role_change
UserRoleHistory_create_for_role_change(user, new_role, changed_by, reason) ==
    [user_id |-> user.id, old_role |-> user.role, new_role |-> new_role,
     changed_by_id |-> changed_by.id, reason |-> reason]

\* the name of an enum member
UserRole_name(r) ==
    CASE r = USER -> "USER"
      [] r = ADMIN -> "ADMIN"
      [] r = SUPERADMIN -> "SUPERADMIN"

\* UserRoleHistory.was_promotion
UserRoleHistory_was_promotion(self) == self.new_role > self.old_role

\* a was_demotion that counts an unchanged role as a demotion
UserRoleHistory_was_demotion_nonstrict(self) == self.new_role <= self.old_role

\* UserRoleHistory.was_demotion
UserRoleHistory_was_demotion(self) == self.new_role < self.old_role

\* UserRoleHistory.role_change_description
UserRoleHistory_role_change_description(self) ==
    LET direction == IF UserRoleHistory_was_promotion(self) THEN " (promotion)"
                     ELSE IF UserRoleHistory_was_demotion(self) THEN " (demotion)"
                     ELSE ""
    IN  UserRole_name(self.old_role) \o " → " \o UserRole_name(self.new_role)
            \o direction

\* the reason argument: left at its default or a text
Reasons == <<None, "Promoted to team lead">>

\* UserRoleHistory.create_for_role_change(users[h], new_role, users[cb], reason)
\* on two live objects; the body is one constructor call and assigns nothing
CreateForRoleChange(h, new_role, cb, reason) ==
    /\ Exists(h)
    /\ Exists(cb)
    /\ ret' = Ret("UserRoleHistory.create_for_role_change", h, cb, h = cb, "",
                  [history |-> UserRoleHistory_create_for_role_change(
                                   users[h], new_role, users[cb], reason),
                   new_role |-> new_role,
                   reason |-> reason])
    /\ UNCHANGED users
    /\ UNCHANGED txVars
    /\ UNCHANGED settings

\* one role change by the protocol, alone and committed: the permission
\* check, the history record, the assignment, session.add and commit
ChangeRole(h, new_role, cb) ==
    /\ users[h].state = "persistent"
    /\ users[cb].state = "persistent"
    /\ Len(dbHistory) < MaxHistory
    /\ User_can_manage(users[cb], users[h])
    /\ dbHistory' = Append(dbHistory,
                           UserRoleHistory_create_for_role_change(
                               users[h], new_role, users[cb], None))
    /\ users' = [users EXCEPT ![h].role = new_role]
    /\ ret' = NoRet
    /\ UNCHANGED <<dbRole, sess, lockOwner, started>>
    /\ UNCHANGED settings

\* the subject row as a session loads it: a plain SELECT, the committed role
SubjectRow(role) ==
    [state |-> "persistent", id |-> 1, role |-> role, is_active |-> TRUE,
     deleted_at |-> None, deleted_by_id |-> None, created_by_id |-> None]

\* the acting principal of every request, a superadmin
ActorRow ==
    [state |-> "persistent", id |-> 2, role |-> SUPERADMIN, is_active |-> TRUE,
     deleted_at |-> None, deleted_by_id |-> None, created_by_id |-> None]

NoRow == [user_id |-> None, old_role |-> None, new_role |-> None,
          changed_by_id |-> None, reason |-> None]

IdleSession ==
    [pc |-> "idle", user |-> NoUser, loaded_role |-> None, new_role |-> None,
     history |-> NoRow, updated |-> FALSE, inserted |-> FALSE]

\* the UPDATE the unit of work emits at flush: only for an attribute whose
\* value differs from the one loaded (no net change, no statement)
NeedsUpdate(s) == sess[s].user.role # sess[s].loaded_role

\* async with AsyncSessionLocal() as session; the caller loads the subject
BeginRequest(s, new_role) ==
    /\ sess[s].pc = "idle"
    /\ started < MaxRequests
    /\ started' = started + 1
    /\ sess' = [sess EXCEPT ![s] = [IdleSession EXCEPT
                    !.pc = "loaded",
                    !.user = SubjectRow(dbRole),
                    !.loaded_role = dbRole,
                    !.new_role = new_role]]
    /\ UNCHANGED <<dbRole, dbHistory, lockOwner>>
    /\ UNCHANGED entityVars
    /\ UNCHANGED settings

\* step 2 of the protocol: changed_by.can_manage(user), else give up
CheckPermission(s) ==
    /\ sess[s].pc = "loaded"
    /\ IF User_can_manage(ActorRow, sess[s].user)
       THEN sess' = [sess EXCEPT ![s].pc = "checked"]
       ELSE sess' = [sess EXCEPT ![s] = IdleSession]
    /\ UNCHANGED <<dbRole, dbHistory, lockOwner, started>>
    /\ UNCHANGED entityVars
    /\ UNCHANGED settings

\* the record built from the subject after its role was assigned
BuildHistory_after_assign(s) ==
    /\ sess[s].pc = "checked"
    /\ sess' = [sess EXCEPT
                    ![s].pc = "built",
                    ![s].history = UserRoleHistory_create_for_role_change(
                                       [sess[s].user EXCEPT !.role = sess[s].new_role],
                                       sess[s].new_role, ActorRow, None)]
    /\ UNCHANGED <<dbRole, dbHistory, lockOwner, started>>
    /\ UNCHANGED entityVars
    /\ UNCHANGED settings

\* history = UserRoleHistory.create_for_role_change(...)
BuildHistory(s) ==
    /\ sess[s].pc = "checked"
    /\ sess' = [sess EXCEPT
                    ![s].pc = "built",
                    ![s].history = UserRoleHistory_create_for_role_change(
                                       sess[s].user, sess[s].new_role, ActorRow, None)]
    /\ UNCHANGED <<dbRole, dbHistory, lockOwner, started>>
    /\ UNCHANGED entityVars
    /\ UNCHANGED settings

\* target_user.role = new_role; session.add(history)
AssignAndAdd(s) ==
    /\ sess[s].pc = "built"
    /\ sess' = [sess EXCEPT ![s].pc = "added", ![s].user.role = sess[s].new_role]
    /\ UNCHANGED <<dbRole, dbHistory, lockOwner, started>>
    /\ UNCHANGED entityVars
    /\ UNCHANGED settings

\* commit() flushes first.  UPDATE users SET role = ...: waits for the row
\* lock, takes it, and stays invisible to the other sessions (autocommit=False).
FlushUpdate(s) ==
    /\ sess[s].pc = "added"
    /\ IF NeedsUpdate(s)
       THEN /\ lockOwner \in {0, s}
            /\ lockOwner' = s
            /\ sess' = [sess EXCEPT ![s].pc = "flushing", ![s].updated = TRUE]
       ELSE /\ sess' = [sess EXCEPT ![s].pc = "flushing"]
            /\ UNCHANGED lockOwner
    /\ UNCHANGED <<dbRole, dbHistory, started>>
    /\ UNCHANGED entityVars
    /\ UNCHANGED settings

\* INSERT INTO user_role_history, in the same transaction
FlushInsert(s) ==
    /\ sess[s].pc = "flushing"
    /\ sess' = [sess EXCEPT ![s].pc = "flushed", ![s].inserted = TRUE]
    /\ UNCHANGED <<dbRole, dbHistory, lockOwner, started>>
    /\ UNCHANGED entityVars
    /\ UNCHANGED settings

\* COMMIT: everything the transaction wrote becomes visible at once, the row
\* lock is released and the session is closed
Commit(s) ==
    /\ sess[s].pc = "flushed"
    /\ dbRole' = IF sess[s].updated THEN sess[s].user.role ELSE dbRole
    /\ dbHistory' = IF sess[s].inserted
                     THEN Append(dbHistory, sess[s].history)
                     ELSE dbHistory
    /\ lockOwner' = IF lockOwner = s THEN 0 ELSE lockOwner
    /\ sess' = [sess EXCEPT ![s] = IdleSession]
    /\ UNCHANGED started
    /\ UNCHANGED entityVars
    /\ UNCHANGED settings

\* the process dies or the request fails before COMMIT: the session is closed
\* without commit and the transaction is rolled back
Crash(s) ==
    /\ sess[s].pc # "idle"
    /\ lockOwner' = IF lockOwner = s THEN 0 ELSE lockOwner
    /\ sess' = [sess EXCEPT ![s] = IdleSession]
    /\ UNCHANGED <<dbRole, dbHistory, started>>
    /\ UNCHANGED entityVars
    /\ UNCHANGED settings

InitTx ==
    /\ dbRole = USER
    /\ dbHistory = <<>>
    /\ sess = [s \in Sessions |-> IdleSession]
    /\ lockOwner = 0
    /\ started = 0

(***************************************************************************)
(* Settings, core/config.py: the construction settings = Settings().       *)
(*   settings.given      what the sources (keyword arguments, environment  *)
(*                       variables) supply for each field                  *)
(*   settings.pc         the field validated next, in declaration order    *)
(*   settings.validated  the keys of info.data                             *)
(*   settings.data       the values of info.data                           *)
(*   settings.errors     the fields whose validation failed                *)
(*   settings.result     "" while validating, then "Settings" or           *)
(*                       "ValidationError"                                 *)
(* The fields other than SECRET_KEY, DEBUG and ENVIRONMENT are taken as    *)
(* supplied and valid.                                                     *)
(***************************************************************************)
\* SECRET_KEY: min_length
MinSecretLen == 32

\* a field no source supplies
Unset == [how |-> "default", raw |-> ""]

\* SECRET_KEY as supplied, by its length only
SecretKeyInputs ==
    {[how |-> "default", len |-> 0]} \cup
    {[how |-> "env", len |-> n] : n \in {MinSecretLen - 1, MinSecretLen}}

\* DEBUG as supplied: a bool keyword argument or the text of an environment
\* variable
DebugInputs ==
    {Unset} \cup
    {[how |-> "kwarg", raw |-> r] : r \in {"True", "False"}} \cup
    {[how |-> "env", raw |-> r] : r \in {"true", "1", "false", "0", "maybe"}}

\* ENVIRONMENT as supplied
EnvironmentInputs ==
    {Unset} \cup
    {[how |-> h, raw |-> r] :
        h \in {"kwarg", "env"},
        r \in {"production", "PRODUCTION", "staging", "development", "test"}}

\* DEBUG: bool, the conversion of the supplied value
ParseBool(raw) ==
    CASE raw \in {"True", "true", "1"} -> [ok |-> TRUE, v |-> TRUE]
      [] raw \in {"False", "false", "0"} -> [ok |-> TRUE, v |-> FALSE]
      [] OTHER -> [ok |-> FALSE, v |-> FALSE]

\* str.lower() on the texts drawn above
Lower(v) == IF v = "PRODUCTION" THEN "production" ELSE v

\* Settings.validate_secret_key
Settings_validate_secret_key(len) ==
    [raised |-> len < MinSecretLen, v |-> len]

\* Settings.validate_debug_in_production; info.data is validated and data
Settings_validate_debug_in_production(v, validated, data) ==
    LET environment == IF "ENVIRONMENT" \in validated
                       THEN data.ENVIRONMENT
                       ELSE "development"
    IN  [raised |-> environment = "production" /\ v = TRUE, v |-> v]

\* Settings.validate_environment
Settings_validate_environment(v) ==
    LET allowed == {"development", "staging", "production"}
    IN  [raised |-> Lower(v) \notin allowed, v |-> Lower(v)]

\* Settings(...) before any field is validated
Settings_start(secret_key, debug, environment) ==
    [given |-> [SECRET_KEY |-> secret_key, DEBUG |-> debug,
                ENVIRONMENT |-> environment],
     pc |-> "SECRET_KEY",
     validated |-> {},
     data |-> [SECRET_KEY |-> 0, DEBUG |-> FALSE, ENVIRONMENT |-> ""],
     errors |-> {},
     result |-> ""]

\* the module not imported yet
NoSettings ==
    [Settings_start([how |-> "default", len |-> 0], Unset, Unset)
        EXCEPT !.pc = "unloaded"]

\* one field validated: its value enters info.data, or its error is kept
Validated(field, v, next) ==
    [settings EXCEPT !.validated = @ \cup {field},
                     !.data = [@ EXCEPT ![field] = v],
                     !.pc = next]

Failed(field, next) ==
    [settings EXCEPT !.errors = @ \cup {field}, !.pc = next]

\* SECRET_KEY: str = Field(..., min_length=32), then validate_secret_key
ValidateSecretKey ==
    /\ settings.pc = "SECRET_KEY"
    /\ LET g == settings.given.SECRET_KEY
       IN  settings' =
               IF g.how = "default" \/ g.len < MinSecretLen
               THEN Failed("SECRET_KEY", "DEBUG")
               ELSE IF Settings_validate_secret_key(g.len).raised
                    THEN Failed("SECRET_KEY", "DEBUG")
                    ELSE Validated("SECRET_KEY",
                                   Settings_validate_secret_key(g.len).v, "DEBUG")
    /\ UNCHANGED entityVars
    /\ UNCHANGED txVars

\* DEBUG: bool = Field(default=True), then validate_debug_in_production.  A
\* default is taken as it is, without the validator.
ValidateDebug ==
    /\ settings.pc = "DEBUG"
    /\ LET g == settings.given.DEBUG
           parsed == ParseBool(g.raw)
           checked == Settings_validate_debug_in_production(
                          parsed.v, settings.validated, settings.data)
       IN  settings' =
               IF g.how = "default" THEN Validated("DEBUG", TRUE, "ENVIRONMENT")
               ELSE IF ~parsed.ok \/ checked.raised
                    THEN Failed("DEBUG", "ENVIRONMENT")
                    ELSE Validated("DEBUG", checked.v, "ENVIRONMENT")
    /\ UNCHANGED entityVars
    /\ UNCHANGED txVars

\* ENVIRONMENT: str = Field(default="development"), then validate_environment
ValidateEnvironment ==
    /\ settings.pc = "ENVIRONMENT"
    /\ LET g == settings.given.ENVIRONMENT
           checked == Settings_validate_environment(g.raw)
       IN  settings' =
               IF g.how = "default"
               THEN Validated("ENVIRONMENT", "development", "finish")
               ELSE IF checked.raised
                    THEN Failed("ENVIRONMENT", "finish")
                    ELSE Validated("ENVIRONMENT", checked.v, "finish")
    /\ UNCHANGED entityVars
    /\ UNCHANGED txVars

\* all fields done: ValidationError if any failed, else the instance
FinishSettings ==
    /\ settings.pc = "finish"
    /\ settings' = [settings EXCEPT
                        !.pc = "done",
                        !.result = IF settings.errors = {} THEN "Settings"
                                   ELSE "ValidationError"]
    /\ UNCHANGED entityVars
    /\ UNCHANGED txVars

InitSettings ==
    \E secret_key \in SecretKeyInputs, debug \in DebugInputs,
       environment \in EnvironmentInputs :
        settings = Settings_start(secret_key, debug, environment)

NextCfg ==
    \/ ValidateSecretKey
    \/ ValidateDebug
    \/ ValidateEnvironment
    \/ FinishSettings

InitCfg == InitEntity /\ InitTx /\ InitSettings

SpecCfg == InitCfg /\ [][NextCfg]_vars

Init == InitEntity /\ InitTx /\ settings = NoSettings

Next ==
    \/ \E h \in Handles, role \in UserRole : NewUser(h, role)
    \/ \E h \in Handles : Persist(h)
    \/ \E u, v \in Handles : CanManage(u, v)
    \/ \E t, a \in Handles : SoftDelete(t, a)
    \/ \E h \in Handles, new_role \in UserRole : AssignRole(h, new_role)
    \/ \E h \in Handles : Restore(h)
    \/ \E h \in Handles : HardDelete(h)

Spec == Init /\ [][Next]_vars

(***************************************************************************)
(* SpecPure: the pure predicates on drawn arguments.                       *)
(***************************************************************************)
\* every user record as far as can_manage reads it: with or without an id,
\* of any role, active or not
UserRecords ==
    {[NoUser EXCEPT !.state = IF i = None THEN "transient" ELSE "persistent",
                    !.id = i, !.role = r, !.is_active = act] :
        i \in 0..MaxUsers, r \in UserRole, act \in BOOLEAN}

\* a.can_manage(b) for two roles
RoleCanManage(a, b) ==
    /\ ret' = Ret("UserRole.can_manage", a, b, FALSE, "", UserRole_can_manage(a, b))
    /\ UNCHANGED users
    /\ UNCHANGED txVars
    /\ UNCHANGED settings

\* u.can_manage(v) for two user records
UserCanManage(u, v) ==
    /\ ret' = Ret("User.can_manage", u, v, FALSE, "", User_can_manage(u, v))
    /\ UNCHANGED users
    /\ UNCHANGED txVars
    /\ UNCHANGED settings

\* the three properties read off a history row with the given roles
RoleChangeProperties(old_role, new_role) ==
    LET self == [NoRow EXCEPT !.old_role = old_role, !.new_role = new_role]
    IN  /\ ret' = Ret("UserRoleHistory.role_change_description",
                      old_role, new_role, FALSE, "",
                      [was_promotion |-> UserRoleHistory_was_promotion(self),
                       was_demotion |-> UserRoleHistory_was_demotion(self),
                       role_change_description |->
                           UserRoleHistory_role_change_description(self)])
        /\ UNCHANGED users
        /\ UNCHANGED txVars
        /\ UNCHANGED settings

NextPure ==
    \/ \E a, b \in UserRole : RoleCanManage(a, b)
    \/ \E u, v \in UserRecords : UserCanManage(u, v)
    \/ \E old_role, new_role \in UserRole : RoleChangeProperties(old_role, new_role)

SpecPure == Init /\ [][NextPure]_vars

(***************************************************************************)
(* SpecHistory: the history factory called on users, saved or not, of      *)
(* every role.                                                             *)
(***************************************************************************)
NextHistory ==
    \/ \E h \in Handles, role \in UserRole : NewUser(h, role)
    \/ \E h \in Handles : Persist(h)
    \/ \E h \in Handles, new_role \in UserRole : AssignRole(h, new_role)
    \/ \E h, cb \in Handles, new_role \in UserRole, i \in DOMAIN Reasons :
            CreateForRoleChange(h, new_role, cb, Reasons[i])

SpecHistory == Init /\ [][NextHistory]_vars

(***************************************************************************)
(* SpecFk: the rows of users and user_role_history under the foreign keys. *)
(***************************************************************************)
NextFk ==
    \/ \E h \in Handles, role \in UserRole : NewUser(h, role)
    \/ \E h, cb \in Handles, role \in UserRole : NewUserCreatedBy(h, role, cb)
    \/ \E h \in Handles : Persist(h)
    \/ \E h, cb \in Handles, new_role \in UserRole : ChangeRole(h, new_role, cb)
    \/ \E t, a \in Handles : SoftDelete(t, a)
    \/ \E h \in Handles : HardDelete(h)

SpecFk == Init /\ [][NextFk]_vars

NextTx ==
    \/ \E s \in Sessions, new_role \in UserRole : BeginRequest(s, new_role)
    \/ \E s \in Sessions : CheckPermission(s)
    \/ \E s \in Sessions : BuildHistory(s)
    \/ \E s \in Sessions : AssignAndAdd(s)
    \/ \E s \in Sessions : FlushUpdate(s)
    \/ \E s \in Sessions : FlushInsert(s)
    \/ \E s \in Sessions : Commit(s)
    \/ \E s \in Sessions : Crash(s)

SpecTx == Init /\ [][NextTx]_vars

(***************************************************************************)
(* SpecSerial: the protocol with the requests on the subject serialized,   *)
(* one request begun only when no other is under way.                      *)
(***************************************************************************)
BeginSerialized(s, new_role) ==
    /\ \A t \in Sessions : sess[t].pc = "idle"
    /\ BeginRequest(s, new_role)

NextSerial ==
    \/ \E s \in Sessions, new_role \in UserRole : BeginSerialized(s, new_role)
    \/ \E s \in Sessions : CheckPermission(s)
    \/ \E s \in Sessions : BuildHistory(s)
    \/ \E s \in Sessions : AssignAndAdd(s)
    \/ \E s \in Sessions : FlushUpdate(s)
    \/ \E s \in Sessions : FlushInsert(s)
    \/ \E s \in Sessions : Commit(s)
    \/ \E s \in Sessions : Crash(s)

SpecSerial == Init /\ [][NextSerial]_vars

(***************************************************************************)
(* Claims about the role hierarchy, checked under SpecPure.                 *)
(***************************************************************************)

\* C1: UserRole.can_manage(a, b) is true exactly when a's value is strictly
\* greater than b's, that is for (ADMIN, USER), (SUPERADMIN, USER) and
\* (SUPERADMIN, ADMIN) only; a.can_manage(a) is false for every role.
C1_RoleCanManageStrict ==
    ret.op = "UserRole.can_manage" =>
        /\ ret.value = (ret.a > ret.b)
        /\ ret.value = (<<ret.a, ret.b>> \in
                          {<<ADMIN, USER>>, <<SUPERADMIN, USER>>, <<SUPERADMIN, ADMIN>>})
        /\ (ret.a = ret.b => ~ret.value)

C1_Witness ==
    /\ ret.op = "UserRole.can_manage"
    /\ ret.a = SUPERADMIN
    /\ ret.b = SUPERADMIN
    /\ ~ret.value

(***************************************************************************)
(* Claims about the User entity, checked under Spec.                       *)
(***************************************************************************)

\* C2: in every reachable state u.can_manage(u) is false for every user u,
\* whatever its role, and every call of can_manage of a user on itself
\* returned false.
C2_NoSelfManagement ==
    /\ \A u \in Handles : Exists(u) => ~User_can_manage(users[u], users[u])
    /\ (ret.op = "can_manage" /\ ret.same) => ~ret.value

C2_Witness ==
    /\ ret.op = "can_manage"
    /\ ret.same
    /\ ~ret.value
    /\ \E u \in Handles :
          /\ users[u].state = "persistent"
          /\ users[u].role = SUPERADMIN
          /\ users[u].deleted_at = None
          /\ ~users[u].is_active

\* C3: for two different user objects u and v, also ones without an id yet,
\* u.can_manage(v) equals the strict comparison of their roles.
C3_CanManageIsRankComparison ==
    \A u, v \in Handles :
        (u # v /\ Exists(u) /\ Exists(v)) =>
            (User_can_manage(users[u], users[v])
                = UserRole_can_manage(users[u].role, users[v].role))

\* C4: target.soft_delete(actor) with an actor that cannot manage the target
\* raises and leaves the target's deleted_at, deleted_by_id and is_active as
\* they were.
C4_DeniedSoftDeleteChangesNothing ==
    [][\A t, a \in Handles :
         (SoftDelete(t, a) /\ ~User_can_manage(users[a], users[t])) =>
             /\ ret'.raised = "ValueError"
             /\ users'[t].deleted_at = users[t].deleted_at
             /\ users'[t].deleted_by_id = users[t].deleted_by_id
             /\ users'[t].is_active = users[t].is_active]_vars

C4_Witness ==
    /\ ret.op = "soft_delete"
    /\ ret.raised = "ValueError"
    /\ ~ret.same
    /\ \E t \in Handles : Exists(t) /\ users[t].is_active /\ users[t].deleted_at = None

\* C5: target.soft_delete(actor) with an actor that can manage the target
\* leaves deleted_at non-null, deleted_by_id equal to the actor's id and
\* is_active false.
C5_SoftDeleteSetsFields ==
    [][\A t, a \in Handles :
         (SoftDelete(t, a) /\ User_can_manage(users[a], users[t])) =>
             /\ ret'.raised = ""
             /\ users'[t].deleted_at # None
             /\ users'[t].deleted_by_id = users[a].id
             /\ ~users'[t].is_active]_vars

C5_Witness ==
    /\ ret.op = "soft_delete"
    /\ ret.raised = ""
    /\ \E t, a \in Handles :
          /\ users[a].state = "persistent"
          /\ Exists(t)
          /\ users[t].deleted_at # None
          /\ users[t].deleted_by_id = users[a].id
          /\ ~users[t].is_active

\* C6: restore() never fails, leaves deleted_at and deleted_by_id null and
\* every other field (is_active, role, id) as it was, changes no other user,
\* and is a no-op on a user whose deletion fields are already null.
C6_RestoreClearsOnlyDeletion ==
    [][\A h \in Handles :
         Restore(h) =>
             /\ ret'.raised = ""
             /\ users'[h].deleted_at = None
             /\ users'[h].deleted_by_id = None
             /\ users'[h].is_active = users[h].is_active
             /\ users'[h].role = users[h].role
             /\ users'[h].id = users[h].id
             /\ users'[h].state = users[h].state
             /\ \A x \in Handles \ {h} : users'[x] = users[x]
             /\ (users[h].deleted_at = None /\ users[h].deleted_by_id = None)
                    => users' = users]_vars

C6_Witness ==
    /\ ret = NoRet
    /\ \E h \in Handles :
          /\ Exists(h)
          /\ ~users[h].is_active
          /\ users[h].deleted_at = None
          /\ users[h].deleted_by_id = None

\* C7 as claimed: every user's deleted_at and deleted_by_id are both set or
\* both null.
C7_DeletionFieldsTogether ==
    \A h \in Handles :
        Exists(h) => ((users[h].deleted_at = None) <=> (users[h].deleted_by_id = None))

\* C7 as amended: deleted_by_id is set only on a user whose deleted_at is set
\* (deleted_at can stay set with deleted_by_id null).
C7_DeleterOnlyWithDeletedAt ==
    \A h \in Handles :
        (Exists(h) /\ users[h].deleted_by_id # None) => users[h].deleted_at # None

\* a deleted row whose deleter is gone
C7_Witness ==
    /\ ret = NoRet
    /\ \E h \in Handles :
          /\ users[h].state = "persistent"
          /\ users[h].deleted_at # None
          /\ users[h].deleted_by_id = None
          /\ \A x \in Handles \ {h} : users[x].state = "deleted"

\* C8: no user is recorded as having deleted itself: a set deleted_by_id
\* differs from the user's own id.
C8_NeverSelfDeleted ==
    \A h \in Handles :
        (Exists(h) /\ users[h].deleted_by_id # None) =>
            users[h].deleted_by_id # users[h].id

C8_Witness ==
    /\ ret.op = "soft_delete"
    /\ ret.same
    /\ ret.raised = "ValueError"
    /\ \E h \in Handles :
          /\ users[h].state = "persistent"
          /\ users[h].deleted_by_id # None

\* C11: create_for_role_change(user, new_role, changed_by, reason) returns a
\* record with user_id = user.id, old_role = the role the user holds when the
\* call is made, new_role and reason as given and changed_by_id =
\* changed_by.id, for every pair of roles, a new_role equal to the current
\* role included; the call leaves every field of every user as it was.
C11_FactoryCapturesAndLeaves ==
    [][ret'.op = "UserRoleHistory.create_for_role_change" =>
          /\ ret'.raised = ""
          /\ ret'.value.history.user_id = users[ret'.a].id
          /\ ret'.value.history.old_role = users[ret'.a].role
          /\ ret'.value.history.new_role = ret'.value.new_role
          /\ ret'.value.history.changed_by_id = users[ret'.b].id
          /\ ret'.value.history.reason = ret'.value.reason
          /\ users' = users]_vars

C11_Witness ==
    /\ ret.op = "UserRoleHistory.create_for_role_change"
    /\ ret.a # ret.b
    /\ ret.value.history.old_role = ADMIN
    /\ ret.value.history.new_role = ADMIN
    /\ ret.value.history.user_id # None
    /\ ret.value.history.changed_by_id # None

\* C12: was_promotion is true exactly when new_role is greater than old_role,
\* was_demotion exactly when it is smaller; never both, and both false when
\* the roles are equal. role_change_description is the old name, " → ", the
\* new name, then " (promotion)", " (demotion)" or nothing.
C12_PromotionDemotionDescription ==
    ret.op = "UserRoleHistory.role_change_description" =>
        /\ ret.value.was_promotion = (ret.b > ret.a)
        /\ ret.value.was_demotion = (ret.b < ret.a)
        /\ ~(ret.value.was_promotion /\ ret.value.was_demotion)
        /\ (ret.a = ret.b => ~ret.value.was_promotion /\ ~ret.value.was_demotion)
        /\ <<ret.a, ret.b, ret.value.role_change_description>> \in
               {<<USER, USER, "USER → USER">>,
                <<USER, ADMIN, "USER → ADMIN (promotion)">>,
                <<USER, SUPERADMIN, "USER → SUPERADMIN (promotion)">>,
                <<ADMIN, USER, "ADMIN → USER (demotion)">>,
                <<ADMIN, ADMIN, "ADMIN → ADMIN">>,
                <<ADMIN, SUPERADMIN, "ADMIN → SUPERADMIN (promotion)">>,
                <<SUPERADMIN, USER, "SUPERADMIN → USER (demotion)">>,
                <<SUPERADMIN, ADMIN, "SUPERADMIN → ADMIN (demotion)">>,
                <<SUPERADMIN, SUPERADMIN, "SUPERADMIN → SUPERADMIN">>}

C12_Witness ==
    /\ ret.op = "UserRoleHistory.role_change_description"
    /\ ret.a = ADMIN
    /\ ret.b = ADMIN
    /\ ~ret.value.was_promotion
    /\ ~ret.value.was_demotion
    /\ ret.value.role_change_description = "ADMIN → ADMIN"

(***************************************************************************)
(* Claims about the foreign keys, checked under SpecFk.                    *)
(***************************************************************************)

\* C13: hard-deleting a user row deletes every history row whose user_id is
\* that user and sets to null every deleted_by, changed_by and created_by
\* reference to it, the referencing rows staying in place; soft-deleting a
\* user removes or changes no history row.
C13_HardDeleteCascadesAndNulls ==
    [][/\ \A h \in Handles :
              (/\ users[h].state = "persistent"
               /\ \/ users'[h].state = "deleted"
                  \/ ret'.op = "DELETE" /\ ret'.a = h)
              => LET gone == users[h].id
                     kept == SelectSeq(dbHistory, LAMBDA row : row.user_id # gone)
                 IN  /\ users'[h].state = "deleted"
                     /\ \A x \in Handles \ {h} :
                            users[x].state = "persistent" =>
                                /\ users'[x].state = "persistent"
                                /\ users'[x].deleted_by_id =
                                       IF users[x].deleted_by_id = gone THEN None
                                       ELSE users[x].deleted_by_id
                                /\ users'[x].created_by_id =
                                       IF users[x].created_by_id = gone THEN None
                                       ELSE users[x].created_by_id
                     /\ Len(dbHistory') = Len(kept)
                     /\ \A i \in DOMAIN kept :
                            /\ dbHistory'[i].user_id = kept[i].user_id
                            /\ dbHistory'[i].changed_by_id =
                                   IF kept[i].changed_by_id = gone THEN None
                                   ELSE kept[i].changed_by_id
       /\ ret'.op = "soft_delete" => dbHistory' = dbHistory]_vars

(***************************************************************************)
(* Claims about the role-change protocol, checked under SpecTx.            *)
(***************************************************************************)

\* the role the committed history says the subject holds
RecordedRole ==
    IF dbHistory = <<>> THEN USER ELSE dbHistory[Len(dbHistory)].new_role

\* C9: in every committed state the history and the role agree: the role of
\* the subject is the new_role of the latest history row (its initial role
\* when there is none), so neither a history row without its role update nor
\* a role update without its history row is observable.
C9_HistoryAndRoleAgree == dbRole = RecordedRole

\* C10: two committed history rows of the subject never carry a stale
\* old_role: each row's old_role is the new_role of the row committed before it.
C10_NoStaleOldRole ==
    \A i \in 2..Len(dbHistory) : dbHistory[i].old_role = dbHistory[i - 1].new_role

(***************************************************************************)
(* Claims about the serialized protocol, checked under SpecSerial.         *)
(***************************************************************************)

\* C14: when every role change follows the protocol and the changes of one
\* subject are serialized, the subject's history is a chain: each record's
\* old_role is the new_role of the record created just before it, the first
\* record's old_role is the role the user started with, and the latest
\* record's new_role is the user's current role.
C14_HistoryIsChain ==
    /\ \A i \in 2..Len(dbHistory) :
           dbHistory[i].old_role = dbHistory[i - 1].new_role
    /\ dbHistory # <<>> =>
           /\ dbHistory[1].old_role = USER
           /\ dbHistory[Len(dbHistory)].new_role = dbRole
    /\ \A i \in DOMAIN dbHistory : dbHistory[i].user_id = SubjectRow(dbRole).id

C14_Witness ==
    /\ Len(dbHistory) = 3
    /\ dbHistory[1].new_role = ADMIN
    /\ dbHistory[2].new_role = ADMIN
    /\ dbHistory[3].new_role = USER
    /\ dbRole = USER

(***************************************************************************)
(* Claims about Settings, checked under SpecCfg.                           *)
(***************************************************************************)

\* C15: constructing Settings is rejected with a validation error whenever
\* ENVIRONMENT is "production" and DEBUG is true, however the two values are
\* supplied; the fields are validated one at a time in declaration order.
C15_ProductionDebugRejected ==
    LET debug == settings.given.DEBUG
        environment == settings.given.ENVIRONMENT
    IN  (/\ settings.pc = "done"
         /\ debug.how = "default" \/ (ParseBool(debug.raw).ok /\ ParseBool(debug.raw).v)
         /\ environment.how # "default"
         /\ environment.raw = "production")
        => settings.result = "ValidationError"


====
